---- MODULE Spec2Model ----
(***************************************************************************)
(* A model of the two sprite utilities of exterminator_wizard:             *)
(*   gif2png/lg-gif2png.py     the batch GIF -> PNG white-keying converter *)
(*   utils/label-spritesheet.py  the sprite sheet tile labeler             *)
(* Three specifications share the module: SpecColor (the pure function     *)
(* get_contrasting_color), SpecLabeler (label_sprite_sheet) and            *)
(* SpecConverter (the converter's batch loop).                             *)
(***************************************************************************)
EXTENDS Integers, Sequences, FiniteSets, TLC

VARIABLES
    \* ---- get_contrasting_color on its own
    color,              \* the RGB argument
    result,             \* "none" before the call, then "white" or "black"
    \* ---- label_sprite_sheet
    lpc,                \* position in label_sprite_sheet
    args,               \* the command line arguments and the source image size
    scaled,             \* <<scaled_width, scaled_height>>
    grid,               \* [cols, rows] once lines 43-44 ran
    cell,               \* <<row, col>> of the next tile of the loop
    labels,             \* the draw.text calls so far, in order
    nlines,             \* the number of draw.line calls so far
    contrasting_color,  \* the local variable: "unbound", "white" or "black"
    output,             \* whether sprite_sheet.save wrote output_path
    lerr,               \* the exception that ended the labeler, or "none"
    \* ---- the converter
    cpc,                \* position in the converter script
    fs,                 \* the directory: file name -> content
    readonly,           \* the paths that cannot be written
    run,                \* the number of the current run of the script
    order,              \* what glob.glob returned in this run
    idx,                \* the position of the loop in order
    name,               \* the local variable name (line 12)
    sprite,             \* the local variable sprite: the canvas
    written,            \* the paths saved in this run, in order
    opened,             \* the files Image.open was called on in this run
    cerr,               \* the exception that ended the run, or "none"
    prev                \* how the previous run ended: its fs, matches and cpc

colorVars == <<color, result>>
labelVars == <<lpc, args, scaled, grid, cell, labels, nlines, contrasting_color,
               output, lerr>>
convVars  == <<cpc, fs, readonly, run, order, idx, name, sprite, written, opened,
               cerr, prev>>
vars == <<colorVars, labelVars, convVars>>

(***************************************************************************)
(* IEEE-754 binary64 arithmetic on the non-negative values the luminance   *)
(* formula meets.  Every value is a multiple of 2^-56 below 2^8, so a      *)
(* value is held as an integer number of units of 2^-56, written as five   *)
(* little-endian limbs of 16 bits (TLC's integers are 32 bits wide).       *)
(***************************************************************************)
LimbBase == 65536
NLimbs == 5

RECURSIVE Normalize(_, _, _)
Normalize(s, i, carry) ==
    IF i > Len(s) THEN <<>>
    ELSE LET v == s[i] + carry
         IN  <<v % LimbBase>> \o Normalize(s, i + 1, v \div LimbBase)

BigAdd(a, b) == Normalize([i \in 1..NLimbs |-> a[i] + b[i]], 1, 0)
BigMulSmall(a, k) == Normalize([i \in 1..NLimbs |-> a[i] * k], 1, 0)

RECURSIVE Pow2(_)
Pow2(k) == IF k = 0 THEN 1 ELSE 2 * Pow2(k - 1)

RECURSIVE BitLen(_)
BitLen(v) == IF v = 0 THEN 0 ELSE 1 + BitLen(v \div 2)

RECURSIVE TopLimb(_, _)
TopLimb(a, i) == IF i = 0 \/ a[i] # 0 THEN i ELSE TopLimb(a, i - 1)

BigBitLength(a) ==
    LET t == TopLimb(a, NLimbs)
    IN  IF t = 0 THEN 0 ELSE 16 * (t - 1) + BitLen(a[t])

RECURSIVE BigLessFrom(_, _, _)
BigLessFrom(a, b, i) ==
    IF i = 0 THEN FALSE
    ELSE IF a[i] # b[i] THEN a[i] < b[i]
    ELSE BigLessFrom(a, b, i - 1)

BigLess(a, b) == BigLessFrom(a, b, NLimbs)

\* The result of an exact operation rounded to 53 significant bits, to nearest,
\* ties to even: what every binary64 multiplication and addition does.
RoundDouble(a) ==
    LET bl == BigBitLength(a)
    IN  IF bl <= 53 THEN a
        ELSE LET k    == bl - 53
                 unit == Pow2(k)
                 r    == a[1] % unit
                 down == [a EXCEPT ![1] = a[1] - r]
                 odd  == (a[1] \div unit) % 2 = 1
                 up   == r > unit \div 2 \/ (r = unit \div 2 /\ odd)
             IN  IF up THEN BigAdd(down, <<unit, 0, 0, 0, 0>>) ELSE down

\* An integer 0..255 as a binary64 (exact): k * 2^56 units.
FloatOfInt(k) == BigMulSmall(<<0, 0, 0, 256, 0>>, k)

\* The literals of line 15 as Python reads them (float.hex):
\*   0.299 = 0x1.322d0e5604189p-2 = 5386305154335113 * 2^-54
\*   0.587 = 0x1.2c8b439581062p-1 = 5287225962532962 * 2^-53
\*   0.114 = 0x1.d2f1a9fbe76c9p-4 = 8214565720323785 * 2^-56
Lit299 == BigMulSmall(<<16777, 58720, 8912, 19, 0>>, 4)
Lit587 == BigMulSmall(<<4194, 14680, 51380, 18, 0>>, 8)
Lit114 == <<30409, 40894, 12058, 29, 0>>

\* float * int, the int being converted exactly first.
FloatMulInt(f, k) == RoundDouble(BigMulSmall(f, k))
FloatAdd(a, b) == RoundDouble(BigAdd(a, b))

\* luminance = (0.299 * color[0] + 0.587 * color[1] + 0.114 * color[2])
Luminance(c) ==
    FloatAdd(FloatAdd(FloatMulInt(Lit299, c[1]), FloatMulInt(Lit587, c[2])),
             FloatMulInt(Lit114, c[3]))

\* return "white" if luminance < 128 else "black"
get_contrasting_color(c) ==
    IF BigLess(Luminance(c), FloatOfInt(128)) THEN "white" ELSE "black"


(***************************************************************************)
(* The idle values the variables of the other two programs keep while one  *)
(* program runs.                                                           *)
(***************************************************************************)
ColorIdle == color = <<0, 0, 0>> /\ result = "none"

LabelIdle ==
    /\ lpc = "idle" /\ args = <<>> /\ scaled = <<0, 0>> /\ grid = <<>>
    /\ cell = <<0, 0>> /\ labels = <<>> /\ nlines = 0
    /\ contrasting_color = "unbound" /\ output = FALSE /\ lerr = "none"

ConvIdle ==
    /\ cpc = "idle" /\ fs = <<>> /\ readonly = {} /\ run = 0 /\ order = <<>>
    /\ idx = 0 /\ name = <<>> /\ sprite = <<>> /\ written = <<>> /\ opened = <<>>
    /\ cerr = "none" /\ prev = <<>>

(***************************************************************************)
(* get_contrasting_color as a program of its own: one call on one colour.  *)
(***************************************************************************)
\* The channel values the colours are drawn from: the ends of the range, the
\* threshold and its neighbours, and values whose weighted sum is 128000.
ChannelSamples == {0, 8, 72, 127, 128, 129, 200, 255}

Colors == ChannelSamples \X ChannelSamples \X ChannelSamples

ColorInit ==
    /\ color \in Colors
    /\ result = "none"
    /\ LabelIdle /\ ConvIdle

CallContrast ==
    /\ result = "none"
    /\ result' = get_contrasting_color(color)
    /\ UNCHANGED <<color, labelVars, convVars>>

ColorNext == CallContrast

SpecColor == ColorInit /\ [][ColorNext]_vars

(***************************************************************************)
(* label_sprite_sheet (utils/label-spritesheet.py, lines 18-72).           *)
(***************************************************************************)
MaxDim == 4         \* source image width and height: 1..MaxDim
MaxTile == 2        \* tile_width and tile_height: -1..MaxTile
MaxScale == 2       \* scale: 1..MaxScale
MaxPadding == 1     \* padding: 0..MaxPadding
MaxOffset == 1      \* offset_x and offset_y: -1..MaxOffset

\* The average colours a tile may have (tile.resize((1, 1)).getpixel((0, 0))):
\* the image's content is an input.
AvgColors == {<<0, 0, 0>>, <<255, 255, 255>>, <<128, 128, 128>>, <<8, 200, 72>>}

LabelArgs ==
    [tile_width : (-1)..MaxTile, tile_height : (-1)..MaxTile,
     scale : 1..MaxScale, padding : 0..MaxPadding,
     offset_x : (-1)..MaxOffset, offset_y : (-1)..MaxOffset,
     hairline : BOOLEAN,
     width : 1..MaxDim, height : 1..MaxDim]

\* Python's a // b on integers: the floor of the quotient, for either sign of b.
PyFloorDiv(a, b) == IF b > 0 THEN a \div b ELSE (-a) \div (-b)

\* a // b raises ZeroDivisionError when b is 0.
ZeroDivision(b) == b = 0

\* A grid that leaves only one margin out of the division.
GridCount_oneMargin(scaledDim, offset, tileDim, padding, scale) ==
    PyFloorDiv(scaledDim - offset, (tileDim + padding) * scale)

\* cols = (scaled_width - 2 * offset_x) // ((tile_width + padding) * scale)
GridCount(scaledDim, offset, tileDim, padding, scale) ==
    PyFloorDiv(scaledDim - 2 * offset, (tileDim + padding) * scale)

\* x = col * (tile_width + padding) * scale + offset_x
TileOrigin(k, tileDim, padding, scale, offset) ==
    k * (tileDim + padding) * scale + offset

\* tile_area = (x, y, x + tile_width * scale, y + tile_height * scale)
TileArea(x, y, a) ==
    <<x, y, x + a.tile_width * a.scale, y + a.tile_height * a.scale>>

\* A column-major index.
TileIndex_columnMajor(row, col, cols) == col * cols + row

\* index = row * cols + col
TileIndex(row, col, cols) == row * cols + col

\* for row in range(rows): for col in range(cols): whether the loops have a
\* tile left, and the tile after <<row, col>>.
HasTile(c, g) == c[1] < g.rows /\ c[2] < g.cols
NextCell(c, g) == IF c[2] + 1 < g.cols THEN <<c[1], c[2] + 1>> ELSE <<c[1] + 1, 0>>

\* A crop box with no pixels (right <= left or lower <= upper): whether
\* crop and resize accept it depends on the imaging library's version.
EmptyBox(area) == area[3] <= area[1] \/ area[4] <= area[2]

\* An exception caught inside the function, which then goes on to save.
LabelerRaises_swallowed(exc) == lpc' = "save" /\ lerr' = exc

\* No handler in label_sprite_sheet or main: an exception ends the program.
LabelerRaises(exc) == lpc' = "error" /\ lerr' = exc

LabelInit ==
    /\ lpc = "open"
    /\ args \in LabelArgs
    /\ scaled = <<0, 0>> /\ grid = <<>> /\ cell = <<0, 0>>
    /\ labels = <<>> /\ nlines = 0
    /\ contrasting_color = "unbound"
    /\ output = FALSE /\ lerr = "none"
    /\ ColorIdle /\ ConvIdle

\* Lines 34-40: open, convert, resize by scale.
LoadImage ==
    /\ lpc = "open"
    /\ scaled' = <<args.width * args.scale, args.height * args.scale>>
    /\ lpc' = "grid"
    /\ UNCHANGED <<args, grid, cell, labels, nlines, contrasting_color, output, lerr>>
    /\ UNCHANGED <<colorVars, convVars>>

\* Lines 43-44: the grid size; a zero divisor raises.
ComputeGrid ==
    /\ lpc = "grid"
    /\ LET dx == (args.tile_width + args.padding) * args.scale
           dy == (args.tile_height + args.padding) * args.scale
       IN  IF ZeroDivision(dx) \/ ZeroDivision(dy)
           THEN /\ LabelerRaises("ZeroDivisionError")
                /\ UNCHANGED grid
           ELSE /\ grid' = [cols |-> GridCount(scaled[1], args.offset_x,
                                               args.tile_width, args.padding, args.scale),
                            rows |-> GridCount(scaled[2], args.offset_y,
                                               args.tile_height, args.padding, args.scale)]
                /\ lpc' = "loop"
                /\ UNCHANGED lerr
    /\ UNCHANGED <<args, scaled, cell, labels, nlines, contrasting_color, output>>
    /\ UNCHANGED <<colorVars, convVars>>

\* Lines 47-64: the body of the loops for one tile.
LabelTile ==
    /\ lpc = "loop"
    /\ HasTile(cell, grid)
    /\ LET row  == cell[1]
           col  == cell[2]
           x    == TileOrigin(col, args.tile_width, args.padding, args.scale, args.offset_x)
           y    == TileOrigin(row, args.tile_height, args.padding, args.scale, args.offset_y)
           area == TileArea(x, y, args)
       IN  \/ /\ EmptyBox(area)
              /\ LabelerRaises("ValueError")
              /\ UNCHANGED <<cell, labels, nlines, contrasting_color>>
           \/ \E avg_color \in AvgColors :
                /\ contrasting_color' = get_contrasting_color(avg_color)
                /\ nlines' = IF args.hairline THEN nlines + 2 ELSE nlines
                /\ labels' = Append(labels,
                                    [index |-> TileIndex(row, col, grid.cols),
                                     row |-> row, col |-> col, area |-> area,
                                     at |-> <<x + 5 * args.scale, y + 5 * args.scale>>])
                /\ cell' = NextCell(cell, grid)
                /\ UNCHANGED <<lpc, lerr>>
    /\ UNCHANGED <<args, scaled, grid, output>>
    /\ UNCHANGED <<colorVars, convVars>>

\* The loops of lines 47-48 end.
LoopEnd ==
    /\ lpc = "loop"
    /\ ~HasTile(cell, grid)
    /\ lpc' = "closing"
    /\ UNCHANGED <<args, scaled, grid, cell, labels, nlines, contrasting_color, output, lerr>>
    /\ UNCHANGED <<colorVars, convVars>>

\* Lines 66-69: the closing dividers read contrasting_color, which only the
\* loop body assigns.
ClosingLines ==
    /\ lpc = "closing"
    /\ IF args.hairline
       THEN IF contrasting_color = "unbound"
            THEN /\ LabelerRaises("UnboundLocalError")
                 /\ UNCHANGED nlines
            ELSE /\ nlines' = nlines + 2
                 /\ lpc' = "save"
                 /\ UNCHANGED lerr
       ELSE /\ lpc' = "save"
            /\ UNCHANGED <<nlines, lerr>>
    /\ UNCHANGED <<args, scaled, grid, cell, labels, contrasting_color, output>>
    /\ UNCHANGED <<colorVars, convVars>>

\* Line 72: sprite_sheet.save(output_path).
SaveSheet ==
    /\ lpc = "save"
    /\ output' = TRUE
    /\ lpc' = "done"
    /\ UNCHANGED <<args, scaled, grid, cell, labels, nlines, contrasting_color, lerr>>
    /\ UNCHANGED <<colorVars, convVars>>

LabelNext ==
    \/ LoadImage
    \/ ComputeGrid
    \/ LabelTile
    \/ LoopEnd
    \/ ClosingLines
    \/ SaveSheet

SpecLabeler == LabelInit /\ [][LabelNext]_vars

(***************************************************************************)
(* The converter (gif2png/lg-gif2png.py, lines 9-26).                      *)
(*                                                                         *)
(* A path is a sequence of characters, the directory part being one token. *)
(* A file is either something Image.open rejects ("junk") or an image: a   *)
(* GIF of the directory is held by the number of its decoded picture, a    *)
(* PNG the script wrote by its pixels.                                     *)
(***************************************************************************)
MaxFiles == 3       \* the most GIF-named files the directory holds
MaxRuns == 2        \* how many times the script is run on the directory

CanvasSize == 32    \* Image.new("RGBA", (32, 32))

SpriteDir == "last-guardian-sprites/"
GifExt == <<".", "g", "i", "f">>
PngExt == <<".", "p", "n", "g">>

\* The base names (before the extension) the directory's files may have: two
\* plain ones, one with a dot inside, one starting with a dot (a hidden file).
Stems == {<<"a">>, <<"b">>, <<"a", ".", "b">>, <<".", "a">>}

GifPath(stem) == <<SpriteDir>> \o stem \o GifExt
GifCandidates == {GifPath(stem) : stem \in Stems}
HiddenGif == GifPath(<<".", "a">>)
\* A PNG that may lie in the directory before the first run, and the one path
\* that may be unwritable.
StalePng == <<SpriteDir, "a">> \o PngExt

White == <<255, 255, 255, 255>>
WhiteTransparent == <<255, 255, 255, 0>>
Transparent == <<0, 0, 0, 0>>
\* The colours of the decoded pictures: exact white, near-white in one colour
\* channel, near-white in alpha, white already transparent, black, and
\* transparent black.
Palette == <<White, <<254, 255, 255, 255>>, <<255, 255, 255, 254>>,
             WhiteTransparent, <<0, 0, 0, 255>>, Transparent>>

Picture(w, h, shift) ==
    [w |-> w, h |-> h,
     px |-> [y \in 1..h |-> [x \in 1..w |-> Palette[((x + 2 * y + shift) % 6) + 1]]]]

\* The decoded pictures: smaller than the canvas, exactly the canvas, larger
\* than the canvas in both directions.
Picture1 == Picture(2, 3, 0)
Picture2 == Picture(CanvasSize, CanvasSize, 1)
Picture3 == Picture(CanvasSize + 1, CanvasSize + 2, 2)
Pictures == <<Picture1, Picture2, Picture3>>

Junk == [kind |-> "junk"]
GifFile(id) == [kind |-> "gif", id |-> id]
PngFile(img) == [kind |-> "png", img |-> img]

RECURSIVE IndexOf(_, _, _)
\* The first position >= i of s that holds c, or 0.
IndexOf(s, c, i) ==
    IF i > Len(s) THEN 0 ELSE IF s[i] = c THEN i ELSE IndexOf(s, c, i + 1)

RECURSIVE Split(_, _)
\* str.split(sep): the pieces between the occurrences of sep.
Split(s, sep) ==
    LET k == IndexOf(s, sep, 1)
    IN  IF k = 0 THEN <<s>>
        ELSE <<SubSeq(s, 1, k - 1)>> \o Split(SubSeq(s, k + 1, Len(s)), sep)

\* The characters of a path: the directory token is many characters, none a dot.
EndsWith(s, suffix) ==
    Len(s) >= Len(suffix) /\ SubSeq(s, Len(s) - Len(suffix) + 1, Len(s)) = suffix

\* A pattern that matches every file of the directory.
GlobMatch_everyFile(path) ==
    /\ Len(path) >= 2
    /\ path[1] = SpriteDir
    /\ path[2] # "."

\* glob.glob("last-guardian-sprites/*.gif"): the files of the directory whose
\* name ends in .gif and does not start with a dot (glob skips hidden files).
GlobMatch(path) ==
    /\ Len(path) >= 2
    /\ path[1] = SpriteDir
    /\ path[2] # "."
    /\ EndsWith(Tail(path), GifExt)

Glob(files) == {f \in files : GlobMatch(f)}

\* The orders glob.glob may return a set of files in (os.scandir order).
Orderings(S) ==
    {o \in [1..Cardinality(S) -> S] : \A i, j \in 1..Cardinality(S) : o[i] = o[j] => i = j}

SeqRange(q) == {q[i] : i \in 1..Len(q)}

BlankCanvas(w, h) ==
    [w |-> w, h |-> h, px |-> [y \in 1..h |-> [x \in 1..w |-> Transparent]]]

\* One canvas allocated before the loop and kept for every file.
ImageNew_reused(w, h) == IF sprite = <<>> THEN BlankCanvas(w, h) ELSE sprite

\* Image.new("RGBA", (w, h)): every pixel (0, 0, 0, 0).
ImageNew(w, h) == BlankCanvas(w, h)

\* Image.open: the decoded picture of a file; a junk file is rejected.
CanOpen(file) == file.kind # "junk"
OpenImage(file) == IF file.kind = "gif" THEN Pictures[file.id] ELSE file.img

\* sprite.paste(img, (0, 0)): the part of img that fits replaces the canvas
\* pixels (no mask: alpha is copied too), the rest of img is dropped.
Paste(canvas, img) ==
    [canvas EXCEPT !.px =
        [y \in 1..canvas.h |-> [x \in 1..canvas.w |->
            IF x <= img.w /\ y <= img.h THEN img.px[y][x] ELSE canvas.px[y][x]]]]

\* A scan that takes every pixel with white colour channels, whatever its alpha.
WhiteToTransparent_anyAlpha(canvas) ==
    [canvas EXCEPT !.px =
        [y \in 1..canvas.h |-> [x \in 1..canvas.w |->
            IF SubSeq(canvas.px[y][x], 1, 3) = <<255, 255, 255>>
            THEN WhiteTransparent ELSE canvas.px[y][x]]]]

\* Lines 20-25: every pixel equal to (255, 255, 255, 255) becomes
\* (255, 255, 255, 0).
WhiteToTransparent(canvas) ==
    [canvas EXCEPT !.px =
        [y \in 1..canvas.h |-> [x \in 1..canvas.w |->
            IF canvas.px[y][x] = White THEN WhiteTransparent ELSE canvas.px[y][x]]]]

\* An exception caught in the loop body, which goes on with the next file.
ConverterRaises_nextFile(exc) ==
    /\ cerr' = exc
    /\ idx' = idx + 1
    /\ cpc' = IF idx + 1 > Len(order) THEN "done" ELSE "new"

\* No handler in the script: an exception ends the run where it is.
ConverterRaises(exc) ==
    /\ cerr' = exc
    /\ cpc' = "error"
    /\ UNCHANGED idx

Directories ==
    {D \in SUBSET (GifCandidates \cup {StalePng}) :
        Cardinality(D \cap GifCandidates) <= MaxFiles}

ConvInit ==
    /\ cpc = "start"
    /\ \E D \in Directories :
          fs \in {f \in [D -> {GifFile(id) : id \in 1..Len(Pictures)} \cup {Junk}] :
                    \A q \in D \cap {HiddenGif, StalePng} : f[q] = GifFile(1)}
    /\ readonly \in {{}, {StalePng}}
    /\ run = 1
    /\ order = <<>> /\ idx = 0 /\ name = <<>> /\ sprite = <<>>
    /\ written = <<>> /\ opened = <<>> /\ cerr = "none" /\ prev = <<>>
    /\ ColorIdle /\ LabelIdle

\* Line 10: glob.glob returns the list the loop then walks.
GlobFiles ==
    /\ cpc = "start"
    /\ order' \in Orderings(Glob(DOMAIN fs))
    /\ idx' = 1
    /\ cpc' = IF order' = <<>> THEN "done" ELSE "new"
    /\ UNCHANGED <<fs, readonly, run, name, sprite, written, opened, cerr, prev>>
    /\ UNCHANGED <<colorVars, labelVars>>

\* Line 11: sprite = Image.new("RGBA", (32, 32)).
NewSprite ==
    /\ cpc = "new"
    /\ sprite' = ImageNew(CanvasSize, CanvasSize)
    /\ cpc' = "split"
    /\ UNCHANGED <<fs, readonly, run, order, idx, name, written, opened, cerr, prev>>
    /\ UNCHANGED <<colorVars, labelVars>>

\* Line 12: name, _ = filename.split("."): unpacking anything but two pieces
\* raises ValueError.
SplitName ==
    /\ cpc = "split"
    /\ LET parts == Split(order[idx], ".")
       IN  IF Len(parts) # 2
           THEN /\ ConverterRaises("ValueError")
                /\ UNCHANGED name
           ELSE /\ name' = parts[1]
                /\ cpc' = "open"
                /\ UNCHANGED <<idx, cerr>>
    /\ UNCHANGED <<fs, readonly, run, order, sprite, written, opened, prev>>
    /\ UNCHANGED <<colorVars, labelVars>>

\* Lines 14-15: img = Image.open(filename); sprite.paste(img, (0, 0)).
OpenAndPaste ==
    /\ cpc = "open"
    /\ opened' = Append(opened, order[idx])
    /\ IF ~CanOpen(fs[order[idx]])
       THEN /\ ConverterRaises("UnidentifiedImageError")
            /\ UNCHANGED sprite
       ELSE /\ sprite' = Paste(sprite, OpenImage(fs[order[idx]]))
            /\ cpc' = "scan"
            /\ UNCHANGED <<idx, cerr>>
    /\ UNCHANGED <<fs, readonly, run, order, name, written, prev>>
    /\ UNCHANGED <<colorVars, labelVars>>

\* Lines 20-25: the scan over the canvas.
ScanPixels ==
    /\ cpc = "scan"
    /\ sprite' = WhiteToTransparent(sprite)
    /\ cpc' = "save"
    /\ UNCHANGED <<fs, readonly, run, order, idx, name, written, opened, cerr, prev>>
    /\ UNCHANGED <<colorVars, labelVars>>

\* Line 26: sprite.save(name + ".png", "PNG"), then the next file, if any.
SavePng ==
    /\ cpc = "save"
    /\ LET target == name \o PngExt
       IN  IF target \in readonly
           THEN /\ ConverterRaises("PermissionError")
                /\ UNCHANGED <<fs, written>>
           ELSE /\ fs' = [f \in DOMAIN fs \cup {target} |->
                             IF f = target THEN PngFile(sprite) ELSE fs[f]]
                /\ written' = Append(written, target)
                /\ idx' = idx + 1
                /\ cpc' = IF idx + 1 > Len(order) THEN "done" ELSE "new"
                /\ UNCHANGED cerr
    /\ UNCHANGED <<readonly, run, order, name, sprite, opened, prev>>
    /\ UNCHANGED <<colorVars, labelVars>>

\* The script is run again on the directory as the last run left it.
RunAgain ==
    /\ cpc \in {"done", "error"}
    /\ run < MaxRuns
    /\ prev' = [fs |-> fs, matched |-> SeqRange(order), written |-> SeqRange(written),
                cpc |-> cpc]
    /\ run' = run + 1
    /\ cpc' = "start"
    /\ order' = <<>> /\ idx' = 0 /\ name' = <<>> /\ sprite' = <<>>
    /\ written' = <<>> /\ opened' = <<>> /\ cerr' = "none"
    /\ UNCHANGED <<fs, readonly>>
    /\ UNCHANGED <<colorVars, labelVars>>

ConvNext ==
    \/ GlobFiles
    \/ NewSprite
    \/ SplitName
    \/ OpenAndPaste
    \/ ScanPixels
    \/ SavePng
    \/ RunAgain

SpecConverter == ConvInit /\ [][ConvNext]_vars

(***************************************************************************)
(* Properties of label_sprite_sheet, checked under SpecLabeler.            *)
(***************************************************************************)
LabelerEnded == lpc \in {"done", "error"}

\* The loops of lines 47-64 ran to their end.
LoopCompleted == lpc \in {"closing", "save", "done"} \/ lerr = "UnboundLocalError"

Max0(n) == IF n > 0 THEN n ELSE 0

PositiveTiles == args.tile_width >= 1 /\ args.tile_height >= 1
NonNegativeOffsets == args.offset_x >= 0 /\ args.offset_y >= 0

\* C2: whenever the computed grid has zero rows or zero columns, with hairline
\* off or on, label_sprite_sheet ends without error, having saved an image
\* with no label on it.
C2_ZeroGridSavesUnlabeled ==
    (LabelerEnded /\ grid # <<>> /\ (grid.rows = 0 \/ grid.cols = 0)
        /\ PositiveTiles /\ NonNegativeOffsets)
    => (lpc = "done" /\ output /\ labels = <<>>)

\* C3 as stated: whenever tile_width <= 0 or tile_height <= 0, the labeler
\* ends in an error and writes no output file.
C3_NonPositiveTileFails ==
    (args.tile_width <= 0 \/ args.tile_height <= 0)
    => (~output /\ (LabelerEnded => lpc = "error"))

\* C3 amended: whenever (tile_width + padding) * scale or
\* (tile_height + padding) * scale is zero, the labeler stops at the grid
\* computation with a ZeroDivisionError and writes no output file.
C3_ZeroDivisorFails ==
    (  (args.tile_width + args.padding) * args.scale = 0
    \/ (args.tile_height + args.padding) * args.scale = 0)
    => /\ ~output
       /\ lpc \in {"open", "grid", "error"}
       /\ lpc = "error" => lerr = "ZeroDivisionError"

C3_Witness ==
    /\ lpc = "error"
    /\ lerr = "ZeroDivisionError"
    /\ args.tile_width = 0 /\ args.padding = 0 /\ args.tile_height >= 1

\* C5 as stated: the tile loop draws exactly rows * cols labels, the label of
\* tile (row, col) is row * cols + col, and the labels come in the order
\* 0, 1, ..., rows * cols - 1 (here only for positive tile dimensions,
\* non-negative offsets and a product rows * cols that is not negative).
C5_LabelCountIsRowsTimesCols ==
    (LoopCompleted /\ PositiveTiles /\ NonNegativeOffsets /\ grid.rows * grid.cols >= 0) =>
        /\ Len(labels) = grid.rows * grid.cols
        /\ \A i \in 1..Len(labels) :
              /\ labels[i].index = i - 1
              /\ labels[i].index = labels[i].row * grid.cols + labels[i].col

\* C5 amended: a tile loop that runs to its end draws exactly
\* max(rows, 0) * max(cols, 0) labels (none when rows or cols is negative);
\* the label of tile (row, col) is row * cols + col, and the labels drawn so
\* far are always 0, 1, 2, ... in that order.  The grid of a 64x64 source with
\* tile 16x16, scale 2, padding 0 and offsets 0 is 4 by 4.
C5_LabelsRowMajor ==
    /\ GridCount(64 * 2, 0, 16, 0, 2) = 4
    /\ \A i \in 1..Len(labels) :
          /\ labels[i].index = i - 1
          /\ labels[i].index = labels[i].row * grid.cols + labels[i].col
          /\ labels[i].row \in 0..(grid.rows - 1)
          /\ labels[i].col \in 0..(grid.cols - 1)
    /\ LoopCompleted => Len(labels) = Max0(grid.rows) * Max0(grid.cols)

C5_Witness ==
    /\ lpc = "done"
    /\ grid.rows = 4 /\ grid.cols = 4
    /\ Len(labels) = 16
    /\ labels[16].index = 15 /\ labels[16].row = 3 /\ labels[16].col = 3

\* Two crop boxes share a pixel.
Overlap(a, b) == a[1] < b[3] /\ b[1] < a[3] /\ a[2] < b[4] /\ b[2] < a[4]

\* C10: with positive tile dimensions and non-negative offsets (scale >= 1 and
\* padding >= 0 throughout), every tile rectangle the loop visits lies inside
\* the scaled image, within [offset_x, scaled_width - offset_x] by
\* [offset_y, scaled_height - offset_y], and no two tiles' rectangles overlap.
C10_TilesInsideAndDisjoint ==
    (PositiveTiles /\ NonNegativeOffsets) =>
        /\ \A i \in 1..Len(labels) :
              LET a == labels[i].area
              IN  /\ args.offset_x <= a[1] /\ a[1] < a[3]
                  /\ a[3] <= scaled[1] - args.offset_x
                  /\ args.offset_y <= a[2] /\ a[2] < a[4]
                  /\ a[4] <= scaled[2] - args.offset_y
                  /\ 0 <= a[1] /\ a[3] <= scaled[1]
                  /\ 0 <= a[2] /\ a[4] <= scaled[2]
        /\ \A i, j \in 1..Len(labels) :
              i # j => ~Overlap(labels[i].area, labels[j].area)

C10_Witness ==
    /\ PositiveTiles
    /\ args.offset_x = 1 /\ args.offset_y = 1
    /\ Len(labels) >= 4
    /\ lpc = "done"

(***************************************************************************)
(* Properties of the converter, checked under SpecConverter.               *)
(***************************************************************************)
\* The path of a GIF with its extension replaced by .png.
ReplaceExt(path) == SubSeq(path, 1, Len(path) - Len(GifExt)) \o PngExt

CanvasRows == 1..CanvasSize
CanvasCols == 1..CanvasSize

\* What the scan is to make of one pixel.
Keyed(pixel) == IF pixel = White THEN WhiteTransparent ELSE pixel

\* The canvas of the current file as it was after the paste of line 15.
Pasted == Paste(BlankCanvas(CanvasSize, CanvasSize), OpenImage(fs[order[idx]]))

\* C1: after the scan, every pixel of the pasted canvas that was exactly
\* (255,255,255,255) is (255,255,255,0) and every other pixel (near-white and
\* already transparent ones too) is as it was; no pixel of a PNG the run saved
\* is (255,255,255,255).
C1_WhiteKeying ==
    /\ cpc = "save" =>
          LET before == Pasted
          IN  \A y \in CanvasRows, x \in CanvasCols :
                  sprite.px[y][x] = Keyed(before.px[y][x])
    /\ \A j \in 1..Len(written) :
          \A y \in CanvasRows, x \in CanvasCols :
              fs[written[j]].img.px[y][x] # White

C1_Witness ==
    /\ cpc = "save"
    /\ LET before == Pasted
       IN  /\ \E y \in CanvasRows, x \in CanvasCols :
                before.px[y][x] = White /\ sprite.px[y][x] = WhiteTransparent
           /\ \E y \in CanvasRows, x \in CanvasCols :
                /\ before.px[y][x] = <<255, 255, 255, 254>>
                /\ sprite.px[y][x] = <<255, 255, 255, 254>>
           /\ \E y \in CanvasRows, x \in CanvasCols :
                /\ before.px[y][x] = <<254, 255, 255, 255>>
                /\ sprite.px[y][x] = <<254, 255, 255, 255>>
           /\ \E y \in CanvasRows, x \in CanvasCols :
                before.px[y][x] = WhiteTransparent /\ sprite.px[y][x] = WhiteTransparent

\* C4: for every file the glob matches, dots in its base name or not, the run
\* writes exactly one PNG, at the source path with .gif replaced by .png
\* (every matched file being a readable image and every target writable).
C4_EveryGifGetsPng ==
    (cpc \in {"done", "error"} /\ cerr \notin {"UnidentifiedImageError", "PermissionError"})
    => \A f \in Glob(DOMAIN fs) :
          Cardinality({j \in 1..Len(written) : written[j] = ReplaceExt(f)}) = 1

\* C7: the files are converted one at a time in glob order; a failure at the
\* k-th file puts the run in its error state with the PNGs of files 1..k-1
\* written and in place, none written for file k or a later one, and no file
\* opened twice.
C7_FirstFailureAborts ==
    /\ cerr # "none" => cpc = "error"
    /\ cpc \in {"new", "split", "open", "scan", "save", "error"} =>
          /\ idx \in 1..Len(order)
          /\ Len(written) = idx - 1
    /\ cpc = "done" => Len(written) = Len(order)
    /\ \A j \in 1..Len(written) :
          /\ written[j] = ReplaceExt(order[j])
          /\ written[j] \in DOMAIN fs
          /\ fs[written[j]].kind = "png"
    /\ Len(opened) <= Len(order)
    /\ \A j \in 1..Len(opened) : opened[j] = order[j]
    /\ cpc = "error" => Len(opened) \in {idx - 1, idx}

C7_Witness ==
    /\ cpc = "error"
    /\ cerr \in {"UnidentifiedImageError", "PermissionError"}
    /\ Len(order) = 3
    /\ idx = 2
    /\ Len(written) = 1
    /\ ReplaceExt(order[1]) \in DOMAIN fs
    /\ ReplaceExt(order[3]) \notin DOMAIN fs

\* C8: every PNG the run saved is 32 by 32; where the source picture has a
\* pixel the PNG has that pixel (white-keyed), pixels of the source at
\* x >= 32 or y >= 32 having no place in it; everywhere else the PNG is
\* fully transparent, whatever the files converted before it.
C8_CanvasIsolation ==
    \A j \in 1..Len(written) :
        LET png == fs[written[j]].img
            src == OpenImage(fs[order[j]])
        IN  /\ png.w = 32 /\ png.h = 32
            /\ DOMAIN png.px = 1..32
            /\ \A y \in 1..32 :
                  /\ DOMAIN png.px[y] = 1..32
                  /\ \A x \in 1..32 :
                        png.px[y][x] = IF x <= src.w /\ y <= src.h
                                       THEN Keyed(src.px[y][x])
                                       ELSE Transparent

C8_Witness ==
    /\ cpc = "done"
    /\ Len(written) = 2
    /\ OpenImage(fs[order[1]]) = Picture3
    /\ OpenImage(fs[order[2]]) = Picture1

C6_IntegerThreshold ==
    result # "none" =>
        (result = "white" <=> 299 * color[1] + 587 * color[2] + 114 * color[3] < 128000)

====
